---------------------------- MODULE Spec2Model ----------------------------
(***************************************************************************)
(* A model of the grade-report builder (src/main.py, src/app.py): the      *)
(* configuration validator, the grading engine with its column projection, *)
(* the grade classifier, the student grouper and the report writers.       *)
(*                                                                         *)
(* Text is a sequence of one-character strings, so that int(), float(),    *)
(* str.strip(), str.replace() and str.split() are modelled by what they do *)
(* to the characters.  A Python float is modelled by the exact rational it *)
(* denotes (numerator / denominator in lowest terms): IEEE rounding is not *)
(* modelled.  A dict is a sequence of key/value entries in insertion       *)
(* order.  An operation that can raise returns a record whose exc field is *)
(* the exception's type ("" when it returns normally).                     *)
(***************************************************************************)
EXTENDS Integers, Sequences, FiniteSets, TLC

VARIABLES
    pc,               \* position of the run
    config,           \* the parsed configuration file: section -> entries
    csv,              \* the dataset file: [header, rows]
    verified,         \* outcome of verify_config
    finalData,        \* outcome of gradingAlgorithm (or the grouper's input)
    studentWiseData,  \* outcome of getStudentWiseData
    fs,               \* the directories report/ and tmp/ and the working directory
    written,          \* outcome of the report writer that ran
    gradeThreshold,   \* grade(): the threshold mapping
    total,            \* grade(): the total being classified
    label,            \* grade(): the outcome of the latest call
    prev,             \* grade(): the call before the latest one
    args,             \* command line: csv_files, config_files, output_format
    mappings,         \* command line: the (csv_file, config_file) pairs
    idx,              \* command line: position of the loop over the pairs
    processed,        \* command line: the calls made for the pairs, in order
    raised,           \* command line: the exception that ended the run
    requests          \* web front end: the requests being served

vars == <<pc, config, csv, verified, finalData, studentWiseData, fs, written,
          gradeThreshold, total, label, prev,
          args, mappings, idx, processed, raised, requests>>

\* The variables of the front ends.
front == <<args, mappings, idx, processed, raised, requests>>

-----------------------------------------------------------------------------
(* Bounds of the model.                                                    *)

MaxRows == 4
MaxDataRows == 2

-----------------------------------------------------------------------------
(* A local variable: F applied to the value x was assigned.                *)

With(x, F(_)) == F(x)

-----------------------------------------------------------------------------
(* Text.                                                                   *)

Digits == {"0", "1", "2", "3", "4", "5", "6", "7", "8", "9"}

DigitVal(c) ==
    CASE c = "0" -> 0 [] c = "1" -> 1 [] c = "2" -> 2 [] c = "3" -> 3
      [] c = "4" -> 4 [] c = "5" -> 5 [] c = "6" -> 6 [] c = "7" -> 7
      [] c = "8" -> 8 [] c = "9" -> 9

IsDigits(s) == \A i \in 1..Len(s) : s[i] \in Digits

\* The number a non-empty digit string denotes.
RECURSIVE DigitsVal(_)
DigitsVal(s) ==
    IF s = <<>> THEN 0
    ELSE 10 * DigitsVal(SubSeq(s, 1, Len(s) - 1)) + DigitVal(s[Len(s)])

RECURSIVE Pow10(_)
Pow10(k) == IF k = 0 THEN 1 ELSE 10 * Pow10(k - 1)

\* str.strip(): the text without its leading and trailing whitespace.
RECURSIVE LStrip(_)
LStrip(s) == IF s # <<>> /\ s[1] = " " THEN LStrip(Tail(s)) ELSE s

RECURSIVE RStrip(_)
RStrip(s) ==
    IF s # <<>> /\ s[Len(s)] = " " THEN RStrip(SubSeq(s, 1, Len(s) - 1)) ELSE s

Strip(s) == RStrip(LStrip(s))

\* str.replace(' ', ''): the text without any of its spaces.
RECURSIVE RemoveSpaces(_)
RemoveSpaces(s) ==
    IF s = <<>> THEN <<>>
    ELSE IF s[1] = " " THEN RemoveSpaces(Tail(s))
    ELSE <<s[1]>> \o RemoveSpaces(Tail(s))

\* str.split(','): the pieces between the commas; '' splits to [''].
RECURSIVE SplitFrom(_, _)
SplitFrom(s, piece) ==
    IF s = <<>> THEN <<piece>>
    ELSE IF s[1] = "," THEN <<piece>> \o SplitFrom(Tail(s), <<>>)
    ELSE SplitFrom(Tail(s), Append(piece, s[1]))

Split(s) == SplitFrom(s, <<>>)

-----------------------------------------------------------------------------
(* Numbers.                                                                *)

RECURSIVE GCD(_, _)
GCD(a, b) == IF b = 0 THEN a ELSE GCD(b, a % b)

Abs(n) == IF n < 0 THEN -n ELSE n

\* The float n/d (d > 0), in lowest terms.
Flt(n, d) ==
    With(GCD(Abs(n), d), LAMBDA g : [t |-> "float", n |-> n \div g, d |-> d \div g])

FltAdd(a, b) == Flt(a.n * b.d + b.n * a.d, a.d * b.d)
FltMul(a, b) == Flt(a.n * b.n, a.d * b.d)
\* a / b for b # 0
FltDiv(a, b) ==
    IF b.n > 0 THEN Flt(a.n * b.d, a.d * b.n) ELSE Flt(-(a.n * b.d), a.d * (-b.n))
FltGe(a, b) == a.n * b.d >= b.n * a.d
FltGt(a, b) == a.n * b.d > b.n * a.d

Signed(s) == s # <<>> /\ s[1] \in {"+", "-"}
Unsigned(s) == IF Signed(s) THEN Tail(s) ELSE s
Sign(s) == IF s # <<>> /\ s[1] = "-" THEN -1 ELSE 1

\* int(text): surrounding whitespace and a sign are accepted, then only digits.
IntOf(text) ==
    With(Strip(text), LAMBDA stripped :
    With(Unsigned(stripped), LAMBDA body :
      IF body # <<>> /\ IsDigits(body)
      THEN [exc |-> "", int |-> Sign(stripped) * DigitsVal(body)]
      ELSE [exc |-> "ValueError"]))

\* The digits before and after the decimal point of an unsigned text.
FloatParts(body) ==
    With({i \in 1..Len(body) : body[i] = "."}, LAMBDA dots :
    With(IF dots = {} THEN Len(body) + 1 ELSE CHOOSE i \in dots : TRUE, LAMBDA dot :
      [dots |-> Cardinality(dots),
       ip |-> SubSeq(body, 1, dot - 1),
       fp |-> SubSeq(body, dot + 1, Len(body))]))

\* float(text): as int(), with an optional decimal point and at least one digit.
FloatOf(text) ==
    With(Strip(text), LAMBDA stripped :
    With(FloatParts(Unsigned(stripped)), LAMBDA p :
      IF p.dots <= 1 /\ IsDigits(p.ip) /\ IsDigits(p.fp) /\ Len(p.ip) + Len(p.fp) > 0
      THEN [exc |-> "",
            float |-> Flt(Sign(stripped)
                            * (DigitsVal(p.ip) * Pow10(Len(p.fp)) + DigitsVal(p.fp)),
                          Pow10(Len(p.fp)))]
      ELSE [exc |-> "ValueError"]))

-----------------------------------------------------------------------------
(* Values and dicts.                                                       *)

None == [t |-> "None"]
Str(s) == [t |-> "str", s |-> s]

\* A dict: entries [k, v] in insertion order, keys distinct.
Keys(d) == [i \in 1..Len(d) |-> d[i].k]
Has(d, key) == \E i \in 1..Len(d) : d[i].k = key
Get(d, key) == d[CHOOSE i \in 1..Len(d) : d[i].k = key].v
\* d[key] = value: an existing key keeps its place, a new one goes last.
Put(d, key, value) ==
    IF Has(d, key)
    THEN [i \in 1..Len(d) |-> IF d[i].k = key THEN [k |-> key, v |-> value] ELSE d[i]]
    ELSE Append(d, [k |-> key, v |-> value])

InSeq(x, s) == \E i \in 1..Len(s) : s[i] = x

RECURSIVE Flatten(_)
Flatten(ss) == IF ss = <<>> THEN <<>> ELSE Head(ss) \o Flatten(Tail(ss))

-----------------------------------------------------------------------------
(* grade(gradeThreshold, total)                                            *)

\* The labels the chain of ifs tests, in its order; 'F' is what is left.
GradeOrder == << <<"A", "+">>, <<"A">>, <<"B", "+">>, <<"B">>,
                 <<"C", "+">>, <<"C">>, <<"D">> >>
GradeF == <<"F">>

\* The chain of ifs: the first label, from `from` on, whose threshold the total
\* reaches; gt[label] raises KeyError when the label is missing.
RECURSIVE gradeChain(_, _, _)
gradeChain(gt, tot, from) ==
    IF from > Len(GradeOrder) THEN [exc |-> "", label |-> GradeF]
    ELSE IF ~Has(gt, GradeOrder[from])
    THEN [exc |-> "KeyError", key |-> GradeOrder[from]]
    ELSE IF FltGe(tot, FloatOf(Get(gt, GradeOrder[from])).float)
    THEN [exc |-> "", label |-> GradeOrder[from]]
    ELSE gradeChain(gt, tot, from + 1)

\* A chain that tests total > threshold.
RECURSIVE gradeChainStrict(_, _, _)
gradeChainStrict(gt, tot, from) ==
    IF from > Len(GradeOrder) THEN [exc |-> "", label |-> GradeF]
    ELSE IF ~Has(gt, GradeOrder[from])
    THEN [exc |-> "KeyError", key |-> GradeOrder[from]]
    ELSE IF FltGt(tot, FloatOf(Get(gt, GradeOrder[from])).float)
    THEN [exc |-> "", label |-> GradeOrder[from]]
    ELSE gradeChainStrict(gt, tot, from + 1)

gradeStrict(gt, tot) ==
    IF \E i \in 1..Len(gt) : FloatOf(gt[i].v).exc # ""
    THEN [exc |-> "ValueError", msg |-> "Grade thresholds must be numeric"]
    ELSE gradeChainStrict(gt, tot, 1)

\* A chain that tests the labels from D up to A+.
RECURSIVE gradeChainUp(_, _, _)
gradeChainUp(gt, tot, from) ==
    IF from < 1 THEN [exc |-> "", label |-> GradeF]
    ELSE IF ~Has(gt, GradeOrder[from])
    THEN [exc |-> "KeyError", key |-> GradeOrder[from]]
    ELSE IF FltGe(tot, FloatOf(Get(gt, GradeOrder[from])).float)
    THEN [exc |-> "", label |-> GradeOrder[from]]
    ELSE gradeChainUp(gt, tot, from - 1)

gradeUp(gt, tot) ==
    IF \E i \in 1..Len(gt) : FloatOf(gt[i].v).exc # ""
    THEN [exc |-> "ValueError", msg |-> "Grade thresholds must be numeric"]
    ELSE gradeChainUp(gt, tot, Len(GradeOrder))

\* Every value of the mapping is parsed first, whatever its key.
grade(gt, tot) ==
    IF \E i \in 1..Len(gt) : FloatOf(gt[i].v).exc # ""
    THEN [exc |-> "ValueError", msg |-> "Grade thresholds must be numeric"]
    ELSE gradeChain(gt, tot, 1)

-----
(* getStudentWiseData(finalData, primary_key)                              *)

\* The while loop from index i on, with the locals data, unique and the groups
\* collected so far; finalData[i][primary_key] raises KeyError without the key.
RECURSIVE groupLoop(_, _, _, _, _, _)
groupLoop(rows, primary_key, i, data, unique, groups) ==
    IF i > Len(rows) THEN [exc |-> "", groups |-> Append(groups, data)]
    ELSE IF ~Has(rows[i], primary_key) THEN [exc |-> "KeyError", col |-> primary_key]
    ELSE With(Get(rows[i], primary_key), LAMBDA key :
         With(IF unique = <<>> THEN <<key>> ELSE unique, LAMBDA uniq :
           IF InSeq(key, uniq)
           THEN groupLoop(rows, primary_key, i + 1, Append(data, rows[i]), uniq, groups)
           ELSE groupLoop(rows, primary_key, i + 1, <<>>, <<>>, Append(groups, data))))

getStudentWiseData(rows, primary_key) ==
    groupLoop(rows, primary_key, 1, <<>>, <<>>, <<>>)


-----------------------------------------------------------------------------
(* Files.                                                                  *)
(*                                                                         *)
(* config: a function from the names of the sections the file has to their *)
(* entries (option name and value text, as configparser returns them:      *)
(* case kept, no surrounding whitespace).                                  *)
(* csv: found (the file exists), empty (it has no line at all), header (the*)
(* column names) and rows (each a sequence of cell texts).                 *)

E(key, value) == [k |-> key, v |-> value]

\* What a variable holds while the part of the program it belongs to has not
\* run, and grade()'s outcome before its first call.
Idle == [exc |-> "idle"]
NoCall == [exc |-> "nocall"]

\* No front end is running.
NoFront ==
    /\ args = Idle /\ mappings = Idle /\ idx = Idle
    /\ processed = Idle /\ raised = Idle /\ requests = Idle

\* csv.DictReader: one dict per data row, keyed by the header in its order; a
\* row shorter than the header has None in the missing cells.
DictRow(header, cells) ==
    [i \in 1..Len(header) |->
        E(header[i], IF i <= Len(cells) THEN Str(cells[i]) ELSE None)]

DictReader(file) == [r \in 1..Len(file.rows) |-> DictRow(file.header, file.rows[r])]

\* row.get(key, 'Unknown') of the messages.
Unknown == Str(<<"U", "n", "k", "n", "o", "w", "n">>)
GetOr(d, key, default) == IF Has(d, key) THEN Get(d, key) ELSE default

\* The first element of s, in order, that satisfies P (there is one).
First(s, P(_)) ==
    s[CHOOSE i \in 1..Len(s) : P(s[i]) /\ \A j \in 1..(i - 1) : ~P(s[j])]

-----------------------------------------------------------------------------
(* verify_config(config_file, csv_file)                                    *)

required_sections == <<"TotalMarks", "Weights", "GradeThresholds", "ReportSettings">>
required_grades == GradeOrder \o <<GradeF>>
required_options == <<"report_title", "_treat_missing_as_zero", "coloumns">>

Id == <<"i", "d">>
Name == <<"n", "a", "m", "e">>
Subject == <<"s", "u", "b", "j", "e", "c", "t">>

\* The ValueError raised, with what its message cites.
Invalid(rule, msg, cites) == [exc |-> "ValueError", rule |-> rule, msg |-> msg, cites |-> cites]

\* report_columns: the coloumns text split on commas, each piece stripped.
report_columns(text) == [i \in 1..Len(Split(text)) |-> Strip(Split(text)[i])]

\* name, id and subject of the row, as the messages of step 7 cite them.
student(row) ==
    [name |-> GetOr(row, Name, Unknown),
     id |-> GetOr(row, Id, Unknown),
     subject |-> GetOr(row, Subject, Unknown)]

\* A comparison that also refuses the maximum itself.
reaches(marks, max) == FltGe(marks, Flt(max, 1))

\* marks > total_marks[col]
exceeds(marks, max) == FltGt(marks, Flt(max, 1))

\* Step 7 for one cell: "" when the cell passes, else the failure.
checkCell(row, row_num, col, max) ==
    IF GetOr(row, col, Str(<<>>)).t = "None"
    THEN Invalid(7, "Error reading CSV file", [error |-> "AttributeError"])
    ELSE With(Strip(GetOr(row, col, Str(<<>>)).s), LAMBDA value :
           IF value = <<>> THEN [exc |-> ""]
           ELSE With(FloatOf(value), LAMBDA marks :
                  IF marks.exc # ""
                  THEN Invalid(7, "Invalid marks value",
                               [row |-> row_num, value |-> value, col |-> col,
                                student |-> student(row)])
                  ELSE IF exceeds(marks.float, max)
                  THEN Invalid(7, "exceeds total marks",
                               [row |-> row_num, student |-> student(row),
                                marks |-> marks.float, col |-> col, max |-> max])
                  ELSE [exc |-> ""]))

\* Step 7: the rows in order from row r, the graded columns in order from
\* column c; the first failing cell ends the loop.
RECURSIVE checkRows(_, _, _, _, _)
checkRows(rows, cols, total_marks, r, c) ==
    IF r > Len(rows) THEN [exc |-> ""]
    ELSE IF c > Len(cols) THEN checkRows(rows, cols, total_marks, r + 1, 1)
    ELSE With(checkCell(rows[r], r + 1, cols[c], Get(total_marks, cols[c])), LAMBDA cell :
           IF cell.exc # "" THEN cell
           ELSE checkRows(rows, cols, total_marks, r, c + 1))

\* Steps 6 and 7: the dataset against the graded columns.
verify_csv(file, cols, total_marks) ==
    IF ~file.found THEN Invalid(6, "CSV file not found", [file |-> "csv"])
    ELSE IF file.empty
    THEN Invalid(6, "CSV file is empty or has no header row", [file |-> "csv"])
    ELSE IF \E i \in 1..Len(cols) : ~InSeq(cols[i], file.header)
    THEN Invalid(6, "missing in CSV file",
                 [col |-> First(cols, LAMBDA c : ~InSeq(c, file.header))])
    ELSE checkRows(DictReader(file), cols, total_marks, 1, 1)

\* total_marks[col] = int(config['TotalMarks'][col])
int_total_marks(section) ==
    [i \in 1..Len(section) |-> E(section[i].k, IntOf(section[i].v).int)]

\* A validator that reads the dataset before the report settings.
verify_csv_first(cfg, file) ==
    With(verify_csv(file, Keys(cfg["TotalMarks"]), int_total_marks(cfg["TotalMarks"])),
         LAMBDA read :
      IF read.exc # "" THEN read
      ELSE IF \E i \in 1..Len(required_options) :
                  ~Has(cfg["ReportSettings"], required_options[i])
      THEN Invalid(5, "Missing in [ReportSettings]",
                   [option |-> First(required_options,
                                     LAMBDA o : ~Has(cfg["ReportSettings"], o))])
      ELSE IF \E i \in 1..Len(cfg["TotalMarks"]) :
                  ~InSeq(cfg["TotalMarks"][i].k,
                         report_columns(Get(cfg["ReportSettings"], "coloumns")))
      THEN Invalid(5, "missing in [ReportSettings] coloumns",
                   [col |-> First(Keys(cfg["TotalMarks"]), LAMBDA c :
                              ~InSeq(c, report_columns(Get(cfg["ReportSettings"],
                                                           "coloumns"))))])
      ELSE read)

\* Steps 5 to 7, once the sections, marks, weights and grades have passed.
verify_report(cfg, file) ==
    With(Keys(cfg["TotalMarks"]), LAMBDA cols :
      IF \E i \in 1..Len(required_options) :
            ~Has(cfg["ReportSettings"], required_options[i])
      THEN Invalid(5, "Missing in [ReportSettings]",
                   [option |-> First(required_options,
                                     LAMBDA o : ~Has(cfg["ReportSettings"], o))])
      ELSE With(report_columns(Get(cfg["ReportSettings"], "coloumns")), LAMBDA listed :
             IF \E i \in 1..Len(cols) : ~InSeq(cols[i], listed)
             THEN Invalid(5, "missing in [ReportSettings] coloumns",
                          [col |-> First(cols, LAMBDA c : ~InSeq(c, listed))])
             ELSE verify_csv(file, cols, int_total_marks(cfg["TotalMarks"]))))

\* A check of the weights that looks one way only: marks without a weight.
verify_weights_one_way(cfg, file) ==
    With(Keys(cfg["TotalMarks"]), LAMBDA cols :
    With(Keys(cfg["Weights"]), LAMBDA weights_columns :
      IF \E i \in 1..Len(cols) : ~InSeq(cols[i], weights_columns)
      THEN Invalid(3, "Missing weight for column",
                   [col |-> First(cols, LAMBDA c : ~InSeq(c, weights_columns))])
      ELSE IF \E i \in 1..Len(required_grades) :
                  ~Has(cfg["GradeThresholds"], required_grades[i])
      THEN Invalid(4, "Missing grade threshold",
                   [grade |-> First(required_grades,
                                    LAMBDA g : ~Has(cfg["GradeThresholds"], g))])
      ELSE verify_report(cfg, file)))

\* Steps 3 and 4, then the rest: the weights against the marks, both ways,
\* and the eight grade labels.
verify_weights(cfg, file) ==
    With(Keys(cfg["TotalMarks"]), LAMBDA cols :
    With(Keys(cfg["Weights"]), LAMBDA weights_columns :
      IF \E i \in 1..Len(cols) : ~InSeq(cols[i], weights_columns)
      THEN Invalid(3, "Missing weight for column",
                   [col |-> First(cols, LAMBDA c : ~InSeq(c, weights_columns))])
      ELSE IF \E i \in 1..Len(weights_columns) : ~InSeq(weights_columns[i], cols)
      THEN Invalid(3, "Weight defined but no total marks specified",
                   [col |-> First(weights_columns, LAMBDA c : ~InSeq(c, cols))])
      ELSE IF \E i \in 1..Len(required_grades) :
                  ~Has(cfg["GradeThresholds"], required_grades[i])
      THEN Invalid(4, "Missing grade threshold",
                   [grade |-> First(required_grades,
                                    LAMBDA g : ~Has(cfg["GradeThresholds"], g))])
      ELSE verify_report(cfg, file)))

\* Steps 1 and 2, then the rest: the four sections, and TotalMarks non-empty
\* with values int() accepts.
verify_config(cfg, file) ==
    IF \E i \in 1..Len(required_sections) : required_sections[i] \notin DOMAIN cfg
    THEN Invalid(1, "Missing required section",
                 [section |-> First(required_sections, LAMBDA x : x \notin DOMAIN cfg)])
    ELSE IF cfg["TotalMarks"] = <<>>
    THEN Invalid(2, "[TotalMarks] section is empty", [section |-> "TotalMarks"])
    ELSE IF \E i \in 1..Len(cfg["TotalMarks"]) : IntOf(cfg["TotalMarks"][i].v).exc # ""
    THEN Invalid(2, "Invalid total marks value",
                 [col |-> First(cfg["TotalMarks"], LAMBDA e : IntOf(e.v).exc # "").k])
    ELSE verify_weights(cfg, file)

-----------------------------------------------------------------------------
(* gradingAlgorithm(config_file, csv_file)                                 *)

Total == <<"T", "o", "t", "a", "l">>
Grade == <<"G", "r", "a", "d", "e">>
True == <<"T", "r", "u", "e">>

KeyError(key) == [exc |-> "KeyError", key |-> key]
\* float(text) failing: the message holds the text and nothing else.
FloatError(text) ==
    [exc |-> "ValueError", msg |-> "could not convert string to float", text |-> text]

\* (a / c) * b: the mark scaled by the weight's inverse.
rescaleInverse(a, b, c) == FltMul(FltDiv(a, c), b)

\* (a / b) * c for b # 0
rescale(a, b, c) == FltMul(FltDiv(a, b), c)

\* A cell conversion that takes a blank cell for 0.
cellFloatOrZero(text) ==
    IF Strip(text) = <<>> THEN [exc |-> "", float |-> Flt(0, 1)] ELSE FloatOf(text)

\* float(row[weight])
cellFloat(text) == FloatOf(text)

\* val = (float(row[weight]) / float(totalMarks[weight])) * float(weights[weight])
\* in the order Python evaluates it.
weighted(row, weight, totalMarks, weights) ==
    IF ~Has(row, weight) THEN KeyError(weight)
    ELSE IF Get(row, weight).t = "None" THEN [exc |-> "TypeError"]
    ELSE With(cellFloat(Get(row, weight).s), LAMBDA a :
      IF a.exc # "" THEN FloatError(Get(row, weight).s)
      ELSE IF ~Has(totalMarks, weight) THEN KeyError(weight)
      ELSE With(FloatOf(Get(totalMarks, weight)), LAMBDA b :
        IF b.exc # "" THEN FloatError(Get(totalMarks, weight))
        ELSE IF b.float.n = 0 THEN [exc |-> "ZeroDivisionError"]
        ELSE With(FloatOf(Get(weights, weight)), LAMBDA c :
          IF c.exc # "" THEN FloatError(Get(weights, weight))
          ELSE [exc |-> "", val |-> rescale(a.float, b.float, c.float)])))

\* The inner loop over the weights from entry k on: each column overwritten by
\* its weighted value, which is added to tot.
RECURSIVE weighRow(_, _, _, _, _)
weighRow(row, totalMarks, weights, k, tot) ==
    IF k > Len(weights) THEN [exc |-> "", row |-> row, total |-> tot]
    ELSE With(weighted(row, weights[k].k, totalMarks, weights), LAMBDA w :
           IF w.exc # "" THEN w
           ELSE weighRow(Put(row, weights[k].k, w.val), totalMarks, weights,
                         k + 1, FltAdd(tot, w.val)))

\* One pass of the outer loop: the row with its weighted columns, Total, Grade.
gradeRow(row, cfg) ==
    With(weighRow(row, cfg["TotalMarks"], cfg["Weights"], 1, Flt(0, 1)), LAMBDA w :
      IF w.exc # "" THEN w
      ELSE With(grade(cfg["GradeThresholds"], w.total), LAMBDA g :
             IF g.exc # "" THEN g
             ELSE [exc |-> "",
                   row |-> Put(Put(w.row, Total, w.total), Grade, Str(g.label))]))

\* The outer loop from row r on; the first row that raises ends it.
RECURSIVE gradeRows(_, _, _, _)
gradeRows(rows, cfg, r, ModifiedData) ==
    IF r > Len(rows) THEN [exc |-> "", rows |-> ModifiedData]
    ELSE With(gradeRow(rows[r], cfg), LAMBDA g :
           IF g.exc # "" THEN g
           ELSE gradeRows(rows, cfg, r + 1, Append(ModifiedData, g.row)))

\* coloumns: the text without its spaces, split on commas, then Total and
\* Grade when the settings are the text 'True'.
coloumns(reportSettings) ==
    Split(RemoveSpaces(Get(reportSettings, "coloumns")))
    \o (IF Get(reportSettings, "_include_total_marks") = True THEN <<Total>> ELSE <<>>)
    \o (IF Get(reportSettings, "_include_overall_grade") = True THEN <<Grade>> ELSE <<>>)

\* data[key] = row[key] for the keys from k on.
RECURSIVE projectRow(_, _, _, _)
projectRow(row, cols, k, data) ==
    IF k > Len(cols) THEN [exc |-> "", row |-> data]
    ELSE IF ~Has(row, cols[k]) THEN KeyError(cols[k])
    ELSE projectRow(row, cols, k + 1, Put(data, cols[k], Get(row, cols[k])))

RECURSIVE projectRows(_, _, _, _)
projectRows(rows, cols, r, out) ==
    IF r > Len(rows) THEN [exc |-> "", rows |-> out]
    ELSE With(projectRow(rows[r], cols, 1, <<>>), LAMBDA d :
           IF d.exc # "" THEN d
           ELSE projectRows(rows, cols, r + 1, Append(out, d.row)))

\* "cleaning the data": the second half of gradingAlgorithm.
cleanData(ModifiedData, reportSettings) ==
    IF ~Has(reportSettings, "coloumns") THEN [exc |-> "KeyError", option |-> "coloumns"]
    ELSE IF ~Has(reportSettings, "_include_total_marks")
    THEN [exc |-> "KeyError", option |-> "_include_total_marks"]
    ELSE IF ~Has(reportSettings, "_include_overall_grade")
    THEN [exc |-> "KeyError", option |-> "_include_overall_grade"]
    ELSE With(coloumns(reportSettings), LAMBDA cols :
         With(projectRows(ModifiedData, cols, 1, <<>>), LAMBDA out :
           IF out.exc # "" THEN out
           ELSE [exc |-> "", ModifiedData |-> ModifiedData,
                 coloumns |-> cols, finalData |-> out.rows]))

gradingAlgorithm(cfg, file) ==
    IF \E i \in 1..Len(required_sections) : required_sections[i] \notin DOMAIN cfg
    THEN [exc |-> "KeyError",
          section |-> First(required_sections, LAMBDA x : x \notin DOMAIN cfg)]
    ELSE IF ~file.found THEN [exc |-> "FileNotFoundError"]
    ELSE With(gradeRows(DictReader(file), cfg, 1, <<>>), LAMBDA graded :
           IF graded.exc # "" THEN graded
           ELSE cleanData(graded.rows, cfg["ReportSettings"]))

-----------------------------------------------------------------------------
(* The report writers.  fs holds the directories the writers touch:        *)
(* report_dir / tmp_dir (the directory exists), report / tmp / cwd (the    *)
(* files in it: name and content, in creation order).                      *)

IndexError == [exc |-> "IndexError"]

RECURSIVE IntText(_)
IntText(n) ==
    IF n < 10 THEN <<CHOOSE c \in Digits : DigitVal(c) = n>>
    ELSE Append(IntText(n \div 10), CHOOSE c \in Digits : DigitVal(c) = n % 10)

\* str(value) of an f-string: a str as it is; a float with a whole value as
\* "40.0"; any other float as numerator, "/" and denominator (a stand-in for
\* its decimal expansion).
StrOf(value) ==
    IF value.t = "str" THEN value.s
    ELSE IF value.t = "None" THEN <<"N", "o", "n", "e">>
    ELSE (IF value.n < 0 THEN <<"-">> ELSE <<>>) \o IntText(Abs(value.n))
         \o (IF value.d = 1 THEN <<".", "0">> ELSE <<"/">> \o IntText(value.d))

Values(row) == [i \in 1..Len(row) |-> row[i].v]

\* The lines DictWriter writes: the header, then one line per row.
csvLines(data) ==
    <<Keys(data[1])>>
    \o [r \in 1..Len(data) |->
          [i \in 1..Len(data[1]) |->
              IF Has(data[r], data[1][i].k)
              THEN StrOf(Get(data[r], data[1][i].k)) ELSE <<>>]]

\* generate_csv_report(data, output_file): report/ is made, the file is
\* opened for writing (so it exists, empty), and the header is taken from the
\* first row's keys.
generate_csv_report(disk, data, output_file) ==
    With([disk EXCEPT !.report_dir = TRUE,
                      !.report = Put(disk.report, output_file, [lines |-> <<>>])],
         LAMBDA opened :
      IF data = <<>> THEN [exc |-> "IndexError", fs |-> opened]
      ELSE IF \E r \in 1..Len(data) : \E i \in 1..Len(data[r]) :
                  ~Has(data[1], data[r][i].k)
      THEN [exc |-> "ValueError", fs |-> opened]
      ELSE [exc |-> "",
            fs |-> [opened EXCEPT !.report =
                      Put(disk.report, output_file, [lines |-> csvLines(data)])]])

\* 'F' is the record's Grade (or grade, without a Grade).
isF(row) ==
    With(GetOr(row, Grade, GetOr(row, <<"g", "r", "a", "d", "e">>, Str(<<>>))), LAMBDA g :
      g.t = "str" /\ g.s = GradeF)

\* The document generate_pdf_report builds from a non-empty group: identity
\* block from the first record, one table row per record, the banner.
Document(data, title) ==
    With(SelectSeq(Keys(data[1]), LAMBDA key : key \notin {Name, Id}),
         LAMBDA table_columns :
      [title |-> title,
       name |-> StrOf(GetOr(data[1], Name, Unknown)),
       id |-> StrOf(GetOr(data[1], Id, Unknown)),
       header |-> table_columns,
       table |-> [r \in 1..Len(data) |->
                    [i \in 1..Len(table_columns) |->
                        StrOf(GetOr(data[r], table_columns[i], Str(<<>>)))]],
       result |-> IF \E r \in 1..Len(data) : isF(data[r]) THEN "FAIL" ELSE "PASS"])

StudentGradeReport ==
    <<"S", "t", "u", "d", "e", "n", "t", " ", "G", "r", "a", "d", "e", " ",
      "R", "e", "p", "o", "r", "t">>

\* generate_pdf_report(data, output_file, config_file): the document is built
\* into report/output_file; data[0] raises IndexError for an empty group.
generate_pdf_report(disk, data, output_file, cfg) ==
    With([disk EXCEPT !.report_dir = TRUE], LAMBDA made :
      IF "ReportSettings" \notin DOMAIN cfg
      THEN [exc |-> "KeyError", section |-> "ReportSettings", fs |-> made]
      ELSE IF data = <<>> THEN [exc |-> "IndexError", fs |-> made]
      ELSE [exc |-> "",
            fs |-> [made EXCEPT !.report =
                      Put(disk.report, output_file,
                          Document(data, GetOr(cfg["ReportSettings"], "report_title",
                                               StudentGradeReport)))]])

ReportPdf == <<"_", "r", "e", "p", "o", "r", "t", ".", "p", "d", "f">>

\* The loop of generate_combined_pdf over the groups from g on: the file name
\* from the first record of the group, then its document.
RECURSIVE renderGroups(_, _, _, _, _, _)
renderGroups(disk, groups, g, primary_key, secondary_key, cfg) ==
    IF g > Len(groups) THEN [exc |-> "", fs |-> disk]
    ELSE IF groups[g] = <<>> THEN [exc |-> "IndexError", fs |-> disk, group |-> g]
    ELSE IF ~Has(groups[g][1], primary_key)
    THEN [exc |-> "KeyError", fs |-> disk, group |-> g]
    ELSE IF secondary_key.t = "None" \/ ~Has(groups[g][1], secondary_key.s)
    THEN [exc |-> "KeyError", fs |-> disk, group |-> g]
    ELSE With(generate_pdf_report(disk, groups[g],
                                  StrOf(Get(groups[g][1], primary_key)) \o <<"_">>
                                    \o StrOf(Get(groups[g][1], secondary_key.s))
                                    \o ReportPdf,
                                  cfg),
              LAMBDA doc :
           IF doc.exc # "" THEN [exc |-> doc.exc, fs |-> doc.fs, group |-> g]
           ELSE renderGroups(doc.fs, groups, g + 1, primary_key, secondary_key, cfg))

\* The merge of generate_combined_pdf: the files of tmp/, in listing order,
\* appended into output_file of the working directory.
mergeTmp(disk, output_file) ==
    [disk EXCEPT !.cwd = Put(disk.cwd, output_file, [merged |-> Values(disk.tmp)])]

\* generate_combined_pdf(finalData, output_file, config_file): tmp/ made or
\* cleared, the groups rendered, then the files of tmp/ merged into output_file.
generate_combined_pdf(disk, data, output_file, cfg) ==
    With([disk EXCEPT !.tmp_dir = TRUE, !.tmp = <<>>], LAMBDA cleared :
      IF "ReportSettings" \notin DOMAIN cfg
      THEN [exc |-> "KeyError", fs |-> cleared]
      ELSE With(GetOr(cfg["ReportSettings"], "primary_key", Id), LAMBDA primary_key :
           With(getStudentWiseData(data, primary_key), LAMBDA groups :
             IF groups.exc # "" THEN [exc |-> groups.exc, fs |-> cleared]
             ELSE With(renderGroups(cleared, groups.groups, 1, primary_key,
                                    IF Has(cfg["ReportSettings"], "secondary_key")
                                    THEN Str(Get(cfg["ReportSettings"], "secondary_key"))
                                    ELSE None,
                                    cfg),
                       LAMBDA done :
                    IF done.exc # "" THEN done
                    ELSE [exc |-> "", fs |-> mergeTmp(done.fs, output_file)]))))

-----------------------------------------------------------------------------
(* The inputs of a run: configurations and datasets around the scenario of *)
(* one graded column hw (10 marks, weight 50) and the usual thresholds.    *)

Hw == <<"h", "w">>
Qz == <<"q", "z">>
Ex == <<"e", "x">>
FirstName == <<"f", " ", "n">>
OutputFile == <<"o", "u", "t">>

\* The sequences over S of length up to n.
Orders(S, n) == UNION {[1..k -> S] : k \in 0..n}

Distinct(s) == \A i, j \in 1..Len(s) : s[i] = s[j] => i = j

UsualThresholds ==
    <<E(<<"A", "+">>, <<"9", "5">>), E(<<"A">>, <<"8", "5">>),
      E(<<"B", "+">>, <<"7", "5">>), E(<<"B">>, <<"6", "5">>),
      E(<<"C", "+">>, <<"5", "5">>), E(<<"C">>, <<"4", "5">>),
      E(<<"D">>, <<"3", "5">>), E(<<"F">>, <<"0">>)>>

ReportSettings(cols, treat, incTotal, incGrade) ==
    <<E("report_title", <<"R">>), E("_treat_missing_as_zero", treat),
      E("coloumns", cols), E("_include_total_marks", incTotal),
      E("_include_overall_grade", incGrade),
      E("primary_key", Id), E("secondary_key", Name)>>

Config(totalMarks, weights, reportSettings) ==
    [TotalMarks |-> totalMarks, Weights |-> weights,
     GradeThresholds |-> UsualThresholds, ReportSettings |-> reportSettings]

Dataset(header, rows) == [found |-> TRUE, empty |-> FALSE, header |-> header, rows |-> rows]

AllColumns == <<"i", "d", ",", "n", "a", "m", "e", ",", "h", "w", ",", "q", "z">>

\* Marks and weights: TotalMarks over hw and qz with values that are or are
\* not integers >= 1, Weights over hw, qz and ex; a dataset of no row or of one
\* row (hw 8, qz 0).
MarkTexts == {<<"1", "0">>, <<"0">>, <<"-", "5">>, <<"x">>}

KeyConfigs ==
    {Config([i \in 1..Len(tm) |-> E(tm[i], val[tm[i]])],
            [i \in 1..Len(w) |-> E(w[i], <<"5", "0">>)],
            ReportSettings(AllColumns, True, True, True)) :
        tm \in {o \in Orders({Hw, Qz}, 2) : Distinct(o)},
        val \in [{Hw, Qz} -> MarkTexts],
        w \in {o \in Orders({Hw, Qz, Ex}, 2) : Distinct(o)}}

KeyDatasets ==
    {Dataset(<<Id, Name, Hw, Qz>>, rows) :
        rows \in {<<>>, << <<<<"1">>, <<"a">>, <<"8">>, <<"0">>>> >>}}

\* Cells: hw out of 10 and qz out of 4, with values in range, on the maximum,
\* above it, padded, empty, blank and not numeric; up to MaxDataRows rows,
\* all of one student or alternating between two.
HwTexts == {<<"8">>, <<"1", "0">>, <<"1", "2">>, <<" ", "9", " ">>, <<>>, <<" ">>, <<"x">>}
QzTexts == {<<"3">>, <<"4", ".", "5">>}
Students == <<<<<<"1">>, <<"a">>>>, <<<<"2">>, <<"b">>>>>>

CellConfigs ==
    {Config(<<E(Hw, <<"1", "0">>), E(Qz, <<"4">>)>>,
            <<E(Hw, <<"5", "0">>), E(Qz, <<"5", "0">>)>>,
            ReportSettings(AllColumns, treat, True, True)) :
        treat \in {True, <<"F", "a", "l", "s", "e">>}}

CellDatasets ==
    {Dataset(<<Id, Name, Hw, Qz>>,
             [r \in 1..n |-> Students[IF alternate /\ r % 2 = 0 THEN 2 ELSE 1]
                               \o <<hw[r], qz[r]>>]) :
        n \in 0..MaxDataRows, alternate \in BOOLEAN,
        hw \in [1..MaxDataRows -> HwTexts], qz \in [1..MaxDataRows -> QzTexts]}

\* Report columns: coloumns texts with spaces around and inside names, with a
\* name no row has and with an empty piece; the two include settings.
ColumnTexts ==
    {<<"i", "d", ",", "n", "a", "m", "e", ",", "h", "w">>,
     <<"i", "d", ",", " ", "n", "a", "m", "e", " ", ",", " ", "h", "w">>,
     <<"h", "w">>,
     <<"h", "w", ",", "f", " ", "n">>,
     <<"h", "w", ",", "e", "x">>,
     <<"h", "w", ",", ",", "i", "d">>,
     <<"h", "w", ",", "h", "w">>,
     <<"i", "d">>,
     <<>>}

ColumnConfigs ==
    {Config(<<E(Hw, <<"1", "0">>)>>, <<E(Hw, <<"5", "0">>)>>,
            ReportSettings(cols, True, incTotal, incGrade)) :
        cols \in ColumnTexts,
        incTotal \in {True, <<"t", "r", "u", "e">>},
        incGrade \in {True, <<"F", "a", "l", "s", "e">>}}

ColumnDatasets ==
    {Dataset(<<Id, Name, FirstName, Hw>>,
             << <<<<"1">>, <<"a">>, <<"a">>, <<"8">>>> >>)}

EmptyDisk ==
    [report_dir |-> FALSE, report |-> <<>>, tmp_dir |-> FALSE, tmp |-> <<>>, cwd |-> <<>>]

-----------------------------------------------------------------------------
(* A run of the command line for one dataset and one configuration:        *)
(* verify_all_configs, then gradingAlgorithm, then the writer of the       *)
(* chosen format (mode report_for_all).                                    *)

Init ==
    /\ pc = "start"
    /\ \/ config \in KeyConfigs /\ csv \in KeyDatasets
       \/ config \in CellConfigs /\ csv \in CellDatasets
       \/ config \in ColumnConfigs /\ csv \in ColumnDatasets
    /\ verified = Idle /\ finalData = Idle /\ studentWiseData = Idle
    /\ fs = EmptyDisk /\ written = Idle
    /\ gradeThreshold = Idle /\ total = Idle /\ label = Idle /\ prev = Idle
    /\ NoFront

After(outcome, then) == IF outcome.exc = "" THEN then ELSE "failed"

\* verify_config(config_file, csv_file), from verify_all_configs
Verify ==
    /\ pc = "start"
    /\ verified' = verify_config(config, csv)
    /\ pc' = After(verified', "verified")
    /\ UNCHANGED <<config, csv, finalData, studentWiseData, fs, written,
                   gradeThreshold, total, label, prev>>
    /\ UNCHANGED front

\* finalData = gradingAlgorithm(config_file, csv_file)
GradeAll ==
    /\ pc = "verified"
    /\ finalData' = gradingAlgorithm(config, csv)
    /\ pc' = After(finalData', "graded")
    /\ UNCHANGED <<config, csv, verified, studentWiseData, fs, written,
                   gradeThreshold, total, label, prev>>
    /\ UNCHANGED front

\* output format csv: generate_csv_report(finalData, out_name)
CsvReport ==
    /\ pc = "graded"
    /\ \E out \in {generate_csv_report(fs, finalData.finalData, OutputFile)} :
           /\ fs' = out.fs
           /\ written' = [writer |-> "generate_csv_report", exc |-> out.exc]
           /\ pc' = After(out, "done")
    /\ UNCHANGED <<config, csv, verified, finalData, studentWiseData,
                   gradeThreshold, total, label, prev>>
    /\ UNCHANGED front

\* output format pdf with a single configuration: tmp/ is made and
\* generate_pdf_report is given the whole report.
PdfReport ==
    /\ pc = "graded"
    /\ \E out \in {generate_pdf_report([fs EXCEPT !.tmp_dir = TRUE],
                                        finalData.finalData, OutputFile, config)} :
           /\ fs' = out.fs
           /\ written' = [writer |-> "generate_pdf_report", exc |-> out.exc]
           /\ pc' = After(out, "rendered")
    /\ UNCHANGED <<config, csv, verified, finalData, studentWiseData,
                   gradeThreshold, total, label, prev>>
    /\ UNCHANGED front

\* output format pdf: generate_combined_pdf(finalData, out_name, config_file),
\* after the single-configuration rendering or, with several configurations,
\* right after grading.
CombinedPdf ==
    /\ pc \in {"graded", "rendered"}
    /\ \E out \in {generate_combined_pdf(fs, finalData.finalData, OutputFile, config)} :
           /\ fs' = out.fs
           /\ written' = [writer |-> "generate_combined_pdf", exc |-> out.exc]
           /\ pc' = After(out, "done")
    /\ UNCHANGED <<config, csv, verified, finalData, studentWiseData,
                   gradeThreshold, total, label, prev>>
    /\ UNCHANGED front

Next == Verify \/ GradeAll \/ CsvReport \/ PdfReport \/ CombinedPdf

Spec == Init /\ [][Next]_vars

-----------------------------------------------------------------------------
(* The grouper on its own: rows of up to three students, each row with its *)
(* position as its subject.                                                *)

StudentIds == {<<"1">>, <<"2">>, <<"3">>}

GroupRow(id, r) == <<E(Id, Str(id)), E(Subject, Str(IntText(r)))>>

GroupInputs ==
    UNION {{[r \in 1..n |-> GroupRow(ids[r], r)] : ids \in [1..n -> StudentIds]} :
              n \in 0..MaxRows}

InitGroup ==
    /\ pc = "graded"
    /\ finalData \in {[exc |-> "", finalData |-> rows] : rows \in GroupInputs}
    /\ config = Idle /\ csv = Idle /\ verified = Idle /\ studentWiseData = Idle
    /\ fs = Idle /\ written = Idle
    /\ gradeThreshold = Idle /\ total = Idle /\ label = Idle /\ prev = Idle
    /\ NoFront

\* studentWiseData = getStudentWiseData(finalData, primary_key)
Group ==
    /\ pc = "graded"
    /\ studentWiseData' = getStudentWiseData(finalData.finalData, Id)
    /\ pc' = "grouped"
    /\ UNCHANGED <<config, csv, verified, finalData, fs, written,
                   gradeThreshold, total, label, prev>>
    /\ UNCHANGED front

NextGroup == Group

SpecGroup == InitGroup /\ [][NextGroup]_vars

-----------------------------------------------------------------------------
(* The classifier on its own: a threshold mapping with all eight labels,   *)
(* classified for one total after another.                                 *)

MaxTotal == 5

AllLabels == GradeOrder \o <<GradeF>>

\* Threshold texts: two numeric ones for every label (so the tables include the
\* ones that do not decrease from A+ to D), a non-numeric one for D and for F.
ThresholdTexts(l) ==
    IF l = GradeF THEN {<<"0">>, <<"9">>, <<"x">>}
    ELSE IF l = <<"D">> THEN {<<"3">>, <<"6">>, <<"x">>}
    ELSE {<<"3">>, <<"6">>}

GradeTables ==
    {[i \in 1..Len(AllLabels) |-> [k |-> AllLabels[i], v |-> f[i]]] :
        f \in {g \in [1..Len(AllLabels) -> {<<"0">>, <<"3">>, <<"6">>, <<"9">>, <<"x">>}] :
                  \A i \in 1..Len(AllLabels) : g[i] \in ThresholdTexts(AllLabels[i])}}

\* Totals below, at, between and above the numeric threshold texts.
Totals == {Flt(3 * k, 2) : k \in 1..MaxTotal}

InitGrade ==
    /\ pc = "grade"
    /\ gradeThreshold \in GradeTables
    /\ total = None
    /\ label = NoCall
    /\ prev = [total |-> None, label |-> NoCall]
    /\ config = Idle /\ csv = Idle /\ verified = Idle
    /\ finalData = Idle /\ studentWiseData = Idle
    /\ fs = Idle /\ written = Idle
    /\ NoFront

Classify ==
    /\ pc = "grade"
    /\ \E t \in Totals :
          /\ total' = t
          /\ label' = grade(gradeThreshold, t)
    /\ prev' = [total |-> total, label |-> label]
    /\ UNCHANGED <<pc, config, csv, verified, finalData, studentWiseData, fs,
                   written, gradeThreshold>>
    /\ UNCHANGED front

NextGrade == Classify

SpecGrade == InitGrade /\ [][NextGrade]_vars

-----------------------------------------------------------------------------
(* The command line in mode report_for_all: the lists --csv_file and       *)
(* --config_file, the output format csv or pdf, and the output file        *)
(* out.<format>.  The files named on the command line exist; Read gives    *)
(* their content.                                                          *)

MaxFiles == 2

\* The variables of a single run of the pipeline, idle under the command line.
pipeline ==
    <<config, csv, verified, finalData, studentWiseData, written,
      gradeThreshold, total, label, prev>>

EndsWith(s, suffix) ==
    /\ Len(s) >= Len(suffix)
    /\ SubSeq(s, Len(s) - Len(suffix) + 1, Len(s)) = suffix

\* validate_files(file_list, type)
validate_files(file_list, type) ==
    IF \E i \in 1..Len(file_list) : ~EndsWith(file_list[i], type)
    THEN [exc |-> "ValueError", msg |-> "Invalid file type",
          file |-> file_list[CHOOSE i \in 1..Len(file_list) :
                                /\ ~EndsWith(file_list[i], type)
                                /\ \A j \in 1..(i - 1) : EndsWith(file_list[j], type)]]
    ELSE [exc |-> ""]

\* A pairing that accepts any counts and pairs up to the shorter list.
mappingToShorter(csv_files, config_files) ==
    [exc |-> "",
     mappings |-> [i \in 1..(IF Len(csv_files) < Len(config_files)
                             THEN Len(csv_files) ELSE Len(config_files)) |->
                      <<csv_files[i], config_files[i]>>]]

\* validate_config_csv_mapping(csv_files, config_files)
validate_config_csv_mapping(csv_files, config_files) ==
    IF Len(config_files) = 1
    THEN [exc |-> "",
          mappings |-> [i \in 1..Len(csv_files) |-> <<csv_files[i], config_files[1]>>]]
    ELSE IF Len(config_files) = Len(csv_files)
    THEN [exc |-> "",
          mappings |-> [i \in 1..Len(csv_files) |-> <<csv_files[i], config_files[i]>>]]
    ELSE [exc |-> "ValueError", msg |-> "Invalid config-to-CSV mapping",
          num_csv |-> Len(csv_files), num_config |-> Len(config_files)]

DotCsv == <<".", "c", "s", "v">>
DotIni == <<".", "i", "n", "i">>
DotPdf == <<".", "p", "d", "f">>

ACsv == <<"a">> \o DotCsv
BCsv == <<"b">> \o DotCsv
KIni == <<"k">> \o DotIni
MIni == <<"m">> \o DotIni
NTxt == <<"n", ".", "t", "x", "t">>

CsvNames == {ACsv, BCsv}
ConfigNames == {KIni, MIni, NTxt}

\* a.csv: one row of student 1; b.csv: a row of student 1, then one of
\* student 2.  k.ini: hw out of 10 and qz out of 4, weights 50 and 50; m.ini:
\* the same without the weight of qz.
Read(name) ==
    IF name = ACsv
    THEN Dataset(<<Id, Name, Hw, Qz>>, << <<<<"1">>, <<"a">>, <<"8">>, <<"3">>>> >>)
    ELSE IF name = BCsv
    THEN Dataset(<<Id, Name, Hw, Qz>>,
                 << <<<<"1">>, <<"a">>, <<"8">>, <<"3">>>>,
                    <<<<"2">>, <<"b">>, <<"1", "0">>, <<"4">>>> >>)
    ELSE IF name = KIni
    THEN Config(<<E(Hw, <<"1", "0">>), E(Qz, <<"4">>)>>,
                <<E(Hw, <<"5", "0">>), E(Qz, <<"5", "0">>)>>,
                ReportSettings(AllColumns, True, True, True))
    ELSE Config(<<E(Hw, <<"1", "0">>), E(Qz, <<"4">>)>>,
                <<E(Hw, <<"5", "0">>)>>,
                ReportSettings(AllColumns, True, True, True))

Call(op, pair) == [op |-> op, csv |-> pair[1], config |-> pair[2]]

\* args.output_file, and out_name of the loops over the pairs: the output
\* file, with _<idx> before its extension when there are several pairs.
output_file(ext) == OutputFile \o ext
out_name(ext, multiple, i) ==
    IF multiple THEN OutputFile \o <<"_">> \o IntText(i) \o ext ELSE output_file(ext)

InitCli ==
    /\ pc = "start"
    /\ args \in {[csv_files |-> c, config_files |-> k, output_format |-> f] :
                    c \in Orders(CsvNames, MaxFiles) \ {<<>>},
                    k \in Orders(ConfigNames, MaxFiles) \ {<<>>},
                    f \in {DotCsv, DotPdf}}
    /\ mappings = <<>> /\ idx = 0 /\ processed = <<>> /\ raised = Idle
    /\ fs = EmptyDisk
    /\ requests = Idle
    /\ config = Idle /\ csv = Idle /\ verified = Idle /\ finalData = Idle
    /\ studentWiseData = Idle /\ written = Idle
    /\ gradeThreshold = Idle /\ total = Idle /\ label = Idle /\ prev = Idle

\* validate_files(csv_files, ".csv"); validate_files(config_files, ".ini")
ValidateFiles ==
    /\ pc = "start"
    /\ \E out \in {IF validate_files(args.csv_files, DotCsv).exc # ""
                   THEN validate_files(args.csv_files, DotCsv)
                   ELSE validate_files(args.config_files, DotIni)} :
          /\ raised' = IF out.exc # "" THEN out ELSE raised
          /\ pc' = After(out, "files")
    /\ UNCHANGED <<args, mappings, idx, processed, fs, requests>>
    /\ UNCHANGED pipeline

\* verify_all_configs: mappings = validate_config_csv_mapping(...)
Mapping ==
    /\ pc = "files"
    /\ \E out \in {validate_config_csv_mapping(args.csv_files, args.config_files)} :
          /\ raised' = IF out.exc # "" THEN out ELSE raised
          /\ mappings' = IF out.exc # "" THEN mappings ELSE out.mappings
          /\ pc' = After(out, "verifying")
    /\ idx' = 1
    /\ UNCHANGED <<args, processed, fs, requests>>
    /\ UNCHANGED pipeline

\* The stage after the verification: the loop of the output format.
Rendering ==
    IF args.output_format = DotCsv THEN "csv"
    ELSE IF Len(args.config_files) = 1 THEN "pdf" ELSE "combined"

\* verify_all_configs: verify_config(config_file, csv_file) for the next pair
VerifyPair ==
    /\ pc = "verifying"
    /\ \E out \in {verify_config(Read(mappings[idx][2]), Read(mappings[idx][1]))} :
          /\ raised' = IF out.exc # "" THEN out ELSE raised
          /\ pc' = IF out.exc # "" THEN "failed"
                   ELSE IF idx = Len(mappings) THEN Rendering ELSE pc
    /\ processed' = Append(processed, Call("verify_config", mappings[idx]))
    /\ idx' = IF idx = Len(mappings) THEN 1 ELSE idx + 1
    /\ UNCHANGED <<args, mappings, fs, requests>>
    /\ UNCHANGED pipeline

\* One pass of a loop over the pairs: gradingAlgorithm, then the writer on
\* its report; what is called, what is raised and the disk afterwards.
Pass(pair, writer, write(_)) ==
    With(gradingAlgorithm(Read(pair[2]), Read(pair[1])), LAMBDA data :
      IF data.exc # ""
      THEN [exc |-> data.exc, raised |-> data, fs |-> fs,
            calls |-> <<Call("gradingAlgorithm", pair)>>]
      ELSE With(write(data.finalData), LAMBDA out :
             [exc |-> out.exc, raised |-> [exc |-> out.exc], fs |-> out.fs,
              calls |-> <<Call("gradingAlgorithm", pair), Call(writer, pair)>>]))

\* output format csv: gradingAlgorithm and generate_csv_report for the next
\* pair
CsvPair ==
    /\ pc = "csv"
    /\ \E out \in {Pass(mappings[idx], "generate_csv_report",
                        LAMBDA data :
                          generate_csv_report(fs, data,
                              out_name(DotCsv, Len(mappings) > 1, idx)))} :
          /\ raised' = IF out.exc # "" THEN out.raised ELSE raised
          /\ fs' = out.fs
          /\ processed' = processed \o out.calls
          /\ pc' = IF out.exc # "" THEN "failed"
                   ELSE IF idx = Len(mappings) THEN "done" ELSE pc
    /\ idx' = idx + 1
    /\ UNCHANGED <<args, mappings, requests>>
    /\ UNCHANGED pipeline

\* str(count) + args.output_file: count is '' for the first dataset, then 1,
\* 2, ...
counted(i) == (IF i = 1 THEN <<>> ELSE IntText(i - 1)) \o output_file(DotPdf)

\* output format pdf with one configuration: for the next dataset,
\* gradingAlgorithm, tmp/ made, and generate_pdf_report on the whole report
PdfPair ==
    /\ pc = "pdf"
    /\ \E out \in {Pass(<<args.csv_files[idx], args.config_files[1]>>,
                        "generate_pdf_report",
                        LAMBDA data :
                          generate_pdf_report([fs EXCEPT !.tmp_dir = TRUE], data,
                              counted(idx), Read(args.config_files[1])))} :
          /\ raised' = IF out.exc # "" THEN out.raised ELSE raised
          /\ fs' = out.fs
          /\ processed' = processed \o out.calls
          /\ pc' = IF out.exc # "" THEN "failed"
                   ELSE IF idx = Len(args.csv_files) THEN "combined" ELSE pc
    /\ idx' = IF idx = Len(args.csv_files) THEN 1 ELSE idx + 1
    /\ UNCHANGED <<args, mappings, requests>>
    /\ UNCHANGED pipeline

\* output format pdf: gradingAlgorithm and generate_combined_pdf for the next
\* pair
CombinedPair ==
    /\ pc = "combined"
    /\ \E out \in {Pass(mappings[idx], "generate_combined_pdf",
                        LAMBDA data :
                          generate_combined_pdf(fs, data,
                              out_name(DotPdf, Len(mappings) > 1, idx),
                              Read(mappings[idx][2])))} :
          /\ raised' = IF out.exc # "" THEN out.raised ELSE raised
          /\ fs' = out.fs
          /\ processed' = processed \o out.calls
          /\ pc' = IF out.exc # "" THEN "failed"
                   ELSE IF idx = Len(mappings) THEN "done" ELSE pc
    /\ idx' = idx + 1
    /\ UNCHANGED <<args, mappings, requests>>
    /\ UNCHANGED pipeline

NextCli == ValidateFiles \/ Mapping \/ VerifyPair \/ CsvPair \/ PdfPair \/ CombinedPair

SpecCli == InitCli /\ [][NextCli]_vars

-----------------------------------------------------------------------------
(* The validator on inputs that break several of its rules at once: each   *)
(* rule is kept or broken on its own, in one or two ways, around the       *)
(* configuration hw out of 10 with weight 50 and a dataset of two rows.    *)

Without(entries, key) == SelectSeq(entries, LAMBDA e : e.k # key)

\* The configuration without one of its sections.
Lacks(cfg, section) == [x \in (DOMAIN cfg) \ {section} |-> cfg[x]]

OrderConfigs ==
    {Lacks([TotalMarks |-> tm, Weights |-> w, GradeThresholds |-> gt,
            ReportSettings |-> rs], missing) :
        missing \in {"", "Weights", "ReportSettings"},
        tm \in {<<E(Hw, <<"1", "0">>)>>, <<E(Hw, <<"x">>)>>, <<>>},
        w \in {<<E(Hw, <<"5", "0">>)>>, <<>>,
               <<E(Hw, <<"5", "0">>), E(Ex, <<"5", "0">>)>>},
        gt \in {UsualThresholds, Without(UsualThresholds, <<"D">>)},
        rs \in {ReportSettings(AllColumns, True, True, True),
                Without(ReportSettings(AllColumns, True, True, True), "coloumns"),
                ReportSettings(<<"i", "d", ",", "n", "a", "m", "e">>, True, True, True)}}

OrderDatasets ==
    {[found |-> FALSE, empty |-> FALSE, header |-> <<>>, rows |-> <<>>],
     [found |-> TRUE, empty |-> TRUE, header |-> <<>>, rows |-> <<>>]}
    \cup {Dataset(<<Id, Name, Hw, Qz>>,
                  << <<<<"1">>, <<"a">>, <<"8">>, <<"3">>>>,
                     <<<<"1">>, <<"a">>, hw, <<"3">>>> >>) :
             hw \in {<<"9">>, <<"1", "2">>, <<"x">>}}
    \cup {Dataset(<<Id, Name, Qz>>, << <<<<"1">>, <<"a">>, <<"3">>>> >>)}

InitOrder ==
    /\ pc = "start"
    /\ config \in OrderConfigs
    /\ csv \in OrderDatasets
    /\ verified = Idle /\ finalData = Idle /\ studentWiseData = Idle
    /\ fs = EmptyDisk /\ written = Idle
    /\ gradeThreshold = Idle /\ total = Idle /\ label = Idle /\ prev = Idle
    /\ NoFront

NextOrder == Verify

SpecOrder == InitOrder /\ [][NextOrder]_vars

-----------------------------------------------------------------------------
(* The web front end (app.py): requests to /generate for a pdf report,     *)
(* served by the threads of the development server over the one directory  *)
(* report/.  A request moves by one file operation at a time.  Each request*)
(* has read its own uploads: the configuration k.ini and a dataset of one  *)
(* or two rows of the students a and b, with the request's marks.          *)

Requests == {1, 2}

Letters ==
    {"a", "b", "c", "d", "e", "f", "g", "h", "i", "j", "k", "l", "m", "n", "o", "p",
     "q", "r", "s", "t", "u", "v", "w", "x", "y", "z", "A", "B", "C", "D", "E", "F",
     "G", "H", "I", "J", "K", "L", "M", "N", "O", "P", "Q", "R", "S", "T", "U", "V",
     "W", "X", "Y", "Z"}

\* "".join([c for c in text if c.isalpha() or c.isdigit() (or c == ' ')])
\* .rstrip(), and 'Unknown' when nothing is left.
safe(text, spaces) ==
    With(RStrip(SelectSeq(text, LAMBDA c :
                   c \in Letters \/ c \in Digits \/ (spaces /\ c = " "))),
         LAMBDA kept : IF kept = <<>> THEN Unknown.s ELSE kept)

\* filename of the student with the key (name, id)
filename(key) ==
    safe(IF key[1].t = "None" THEN Unknown.s ELSE StrOf(key[1]), TRUE) \o <<"_">>
    \o safe(IF key[2].t = "None" THEN Unknown.s ELSE StrOf(key[2]), FALSE) \o ReportPdf

\* students: the rows from row i on added to the dict keyed by (name, id).
RECURSIVE groupByStudent(_, _, _)
groupByStudent(rows, i, students) ==
    IF i > Len(rows) THEN students
    ELSE With(<<GetOr(rows[i], Name, Unknown), GetOr(rows[i], Id, Unknown)>>, LAMBDA key :
           groupByStudent(rows, i + 1,
               Put(students, key,
                   IF Has(students, key) THEN Append(Get(students, key), rows[i])
                   ELSE <<rows[i]>>)))

\* The uploads of request r: rows of the students in order who, every hw being
\* 7 + r.
Upload(r, who) ==
    Dataset(<<Id, Name, Hw, Qz>>,
            [i \in 1..Len(who) |-> Students[who[i]] \o <<IntText(7 + r), <<"3">>>>])

\* The output file name of the form: out.pdf, or the request's own out<r>.pdf.
output_filename(r, own) ==
    IF own THEN OutputFile \o IntText(r) \o DotPdf ELSE output_file(DotPdf)

\* A request that has not started.
Request(r, who, own) ==
    [pc |-> "start", csv |-> Upload(r, who), output_filename |-> output_filename(r, own),
     students |-> <<>>, pdf_files |-> <<>>, k |-> 1, merger |-> <<>>, response |-> Idle]

InitWeb ==
    /\ pc = "serving"
    /\ requests \in
          {[r \in Requests |-> Request(r, who[r], own[r])] :
              who \in [Requests -> Orders({1, 2}, 2) \ {<<>>}],
              own \in [Requests -> BOOLEAN]}
    /\ fs = [EmptyDisk EXCEPT !.report_dir = TRUE]
    /\ args = Idle /\ mappings = Idle /\ idx = Idle /\ processed = Idle /\ raised = Idle
    /\ config = Idle /\ csv = Idle /\ verified = Idle /\ finalData = Idle
    /\ studentWiseData = Idle /\ written = Idle
    /\ gradeThreshold = Idle /\ total = Idle /\ label = Idle /\ prev = Idle

\* Where a loop over n items goes after item k: on, or to the next stage.
Loop(k, n, stage, then) == IF k >= n THEN [pc |-> then, k |-> 1] ELSE [pc |-> stage, k |-> k + 1]

\* generate: final_data = gradingAlgorithm(config_path, csv_path), and the
\* grouping of generate_combined_pdf_fixed, which touches no file
GradeUpload(r) ==
    /\ requests[r].pc = "start"
    /\ \E data \in {gradingAlgorithm(Read(KIni), requests[r].csv)} :
          requests' = [requests EXCEPT ![r] =
              IF data.exc # ""
              THEN [@ EXCEPT !.pc = "done", !.response = [exc |-> data.exc, status |-> 500]]
              ELSE [@ EXCEPT !.pc = "render",
                             !.students = groupByStudent(data.finalData, 1, <<>>)]]
    /\ UNCHANGED <<pc, fs, args, mappings, idx, processed, raised>>
    /\ UNCHANGED pipeline

\* generate_combined_pdf_fixed: generate_pdf_report(data, filename, config_file)
\* for the next student, and its path kept in pdf_files
RenderStudent(r) ==
    /\ requests[r].pc = "render"
    /\ \E out \in {generate_pdf_report(fs, requests[r].students[requests[r].k].v,
                                       filename(requests[r].students[requests[r].k].k),
                                       Read(KIni))} :
          /\ fs' = out.fs
          /\ requests' = [requests EXCEPT ![r] =
                IF out.exc # ""
                THEN [@ EXCEPT !.pc = "done", !.response = [exc |-> out.exc, status |-> 500]]
                ELSE [@ EXCEPT
                        !.pdf_files = Append(@, filename(requests[r].students[requests[r].k].k)),
                        !.pc = Loop(requests[r].k, Len(requests[r].students),
                                    "render", "merge").pc,
                        !.k = Loop(requests[r].k, Len(requests[r].students),
                                   "render", "merge").k]]
    /\ UNCHANGED <<pc, args, mappings, idx, processed, raised>>
    /\ UNCHANGED pipeline

\* if os.path.exists(pdf): merger.append(pdf), for the next path
MergeFile(r) ==
    /\ requests[r].pc = "merge"
    /\ requests' = [requests EXCEPT ![r] =
          [@ EXCEPT
             !.merger = IF Has(fs.report, requests[r].pdf_files[requests[r].k])
                        THEN Append(@, Get(fs.report, requests[r].pdf_files[requests[r].k]))
                        ELSE @,
             !.pc = Loop(requests[r].k, Len(requests[r].pdf_files), "merge", "write").pc,
             !.k = Loop(requests[r].k, Len(requests[r].pdf_files), "merge", "write").k]]
    /\ UNCHANGED <<pc, fs, args, mappings, idx, processed, raised>>
    /\ UNCHANGED pipeline

\* merger.write(output_file): the combined document, at report/<output_filename>
WriteCombined(r) ==
    /\ requests[r].pc = "write"
    /\ fs' = [fs EXCEPT !.report = Put(fs.report, requests[r].output_filename,
                                       [merged |-> requests[r].merger])]
    /\ requests' = [requests EXCEPT ![r] = [@ EXCEPT !.pc = "cleanup"]]
    /\ UNCHANGED <<pc, args, mappings, idx, processed, raised>>
    /\ UNCHANGED pipeline

\* if os.path.exists(pdf): os.remove(pdf), for the next path
RemoveFile(r) ==
    /\ requests[r].pc = "cleanup"
    /\ fs' = [fs EXCEPT !.report = Without(fs.report, requests[r].pdf_files[requests[r].k])]
    /\ requests' = [requests EXCEPT ![r] =
          [@ EXCEPT
             !.pc = Loop(requests[r].k, Len(requests[r].pdf_files), "cleanup", "send").pc,
             !.k = Loop(requests[r].k, Len(requests[r].pdf_files), "cleanup", "send").k]]
    /\ UNCHANGED <<pc, args, mappings, idx, processed, raised>>
    /\ UNCHANGED pipeline

\* return send_file(report_path, as_attachment=True)
SendFile(r) ==
    /\ requests[r].pc = "send"
    /\ requests' = [requests EXCEPT ![r] =
          [@ EXCEPT !.pc = "done",
                    !.response =
                        IF Has(fs.report, requests[r].output_filename)
                        THEN [exc |-> "", status |-> 200,
                              file |-> Get(fs.report, requests[r].output_filename)]
                        ELSE [exc |-> "FileNotFoundError", status |-> 500]]]
    /\ UNCHANGED <<pc, fs, args, mappings, idx, processed, raised>>
    /\ UNCHANGED pipeline

NextWeb ==
    \E r \in Requests :
        \/ GradeUpload(r)
        \/ RenderStudent(r)
        \/ MergeFile(r)
        \/ WriteCombined(r)
        \/ RemoveFile(r)
        \/ SendFile(r)

SpecWeb == InitWeb /\ [][NextWeb]_vars

-----------------------------------------------------------------------------
(* Properties of the classifier.                                           *)

Called == pc = "grade" /\ label # NoCall

Numeric(gt, labels) ==
    \A i \in 1..Len(labels) :
        Has(gt, labels[i]) /\ FloatOf(Get(gt, labels[i])).exc = ""

Threshold(gt, l) == FloatOf(Get(gt, l)).float

\* Position of a label in the ordering F < D < C < C+ < B < B+ < A < A+.
Rank(l) ==
    IF l = GradeF THEN 0
    ELSE Len(GradeOrder) + 1 - (CHOOSE i \in 1..Len(GradeOrder) : GradeOrder[i] = l)

\* The label l is the first one, from A+ down to D, whose threshold tot reaches,
\* and F when tot reaches none; the entry under F is not read.
FirstMatch(gt, tot, l) ==
    /\ l \in {GradeOrder[i] : i \in 1..Len(GradeOrder)} \cup {GradeF}
    /\ \A i \in 1..Len(GradeOrder) :
          (l = GradeOrder[i]) <=>
              /\ FltGe(tot, Threshold(gt, GradeOrder[i]))
              /\ \A j \in 1..(i - 1) : ~FltGe(tot, Threshold(gt, GradeOrder[j]))

\* C3, as stated: for every threshold table (its thresholds A+ to D being
\* numbers) and every total, grade returns the first label in the order
\* A+, A, B+, B, C+, C, D whose threshold the total reaches, and F when none is
\* reached, whatever is stored under F.
C3_FirstMatchWhateverF ==
    (Called /\ Numeric(gradeThreshold, GradeOrder)) =>
        /\ label.exc = ""
        /\ FirstMatch(gradeThreshold, total, label.label)

\* C3, amended: when all eight stored values are numeric, grade returns the
\* first label from A+ down to D whose threshold the total reaches, and F when
\* none is reached, so the number stored under F has no influence; when any
\* stored value, the one under F included, is not numeric, grade raises
\* ValueError.
C3_FirstMatchNumeric ==
    Called =>
        IF Numeric(gradeThreshold, AllLabels)
        THEN label.exc = "" /\ FirstMatch(gradeThreshold, total, label.label)
        ELSE label.exc = "ValueError"

\* C3 witness: a total that equals the threshold of B but reaches none of the
\* thresholds above it has been classified B.
C3_Witness ==
    /\ Called
    /\ Numeric(gradeThreshold, AllLabels)
    /\ label.exc = "" /\ label.label = <<"B">>
    /\ Threshold(gradeThreshold, <<"B">>) = total
    /\ Threshold(gradeThreshold, <<"A", "+">>) # total

\* C4: for a fixed threshold table, decreasing from A+ to D or not, and totals
\* t1 <= t2, the label of t2 is not lower than the label of t1 in the ordering
\* F < D < C < C+ < B < B+ < A < A+.
C4_Monotonic ==
    (Called /\ prev.label # NoCall /\ label.exc = "" /\ prev.label.exc = "") =>
        /\ FltGe(total, prev.total) => Rank(label.label) >= Rank(prev.label.label)
        /\ FltGe(prev.total, total) => Rank(prev.label.label) >= Rank(label.label)

\* C4 witness: under a table whose thresholds increase from A+ to A, a larger
\* total has been given a strictly higher label than a smaller one.
C4_Witness ==
    /\ Called /\ prev.label # NoCall /\ label.exc = "" /\ prev.label.exc = ""
    /\ FltGt(Threshold(gradeThreshold, <<"A">>), Threshold(gradeThreshold, <<"A", "+">>))
    /\ FltGt(total, prev.total)
    /\ Rank(label.label) > Rank(prev.label.label)

-----------------------------------------------------------------------------
(* Properties of the grouper.                                              *)

\* groups are the maximal runs of rows: every row in one group, in order, a
\* group of one key, and neighbouring groups of different keys.
MaximalRuns(groups, rows, key) ==
    /\ Flatten(groups) = rows
    /\ \A g \in 1..Len(groups) :
          /\ groups[g] # <<>>
          /\ \A i \in 1..Len(groups[g]) :
                Get(groups[g][i], key) = Get(groups[g][1], key)
    /\ \A g \in 1..(Len(groups) - 1) :
          Get(groups[g][Len(groups[g])], key) # Get(groups[g + 1][1], key)

\* C1: for every non-empty row sequence, the groups getStudentWiseData returns
\* are exactly the maximal runs of consecutive rows with equal primary key, in
\* input order: every row is in one group and the row that changes the key is
\* the first member of the next group.
C1_MaximalRuns ==
    (pc = "grouped" /\ finalData.finalData # <<>>) =>
        /\ studentWiseData.exc = ""
        /\ MaximalRuns(studentWiseData.groups, finalData.finalData, Id)

-----------------------------------------------------------------------------
(* Properties of a run.                                                    *)

Validated == verified # Idle /\ verified.exc = ""
Graded == finalData # Idle
Number(text) == FloatOf(text).float

\* The sum of the columns of the weights in a graded row.
RECURSIVE WeightedSum(_, _, _)
WeightedSum(row, weights, k) ==
    IF k > Len(weights) THEN Flt(0, 1)
    ELSE FltAdd(Get(row, weights[k].k), WeightedSum(row, weights, k + 1))

\* C2: when grading succeeds, in every row each column c of the weights holds
\* v with v * totalMarks[c] = value(row[c]) * weights[c], Total is the sum of
\* these weighted values and Grade is grade(gradeThresholds, Total).
C2_WeightedTotalGrade ==
    (Graded /\ finalData.exc = "") =>
        /\ Len(finalData.ModifiedData) = Len(csv.rows)
        /\ \A r \in 1..Len(csv.rows) :
              /\ \A k \in 1..Len(config["Weights"]) :
                    FltMul(Get(finalData.ModifiedData[r], config["Weights"][k].k),
                           Number(Get(config["TotalMarks"], config["Weights"][k].k)))
                      = FltMul(Number(Get(DictReader(csv)[r], config["Weights"][k].k).s),
                               Number(config["Weights"][k].v))
              /\ Get(finalData.ModifiedData[r], Total)
                   = WeightedSum(finalData.ModifiedData[r], config["Weights"], 1)
              /\ Get(finalData.ModifiedData[r], Grade)
                   = Str(grade(config["GradeThresholds"],
                               Get(finalData.ModifiedData[r], Total)).label)

\* C2 witness: hw = 8 out of 10 with weight 50, the only weighted column, has
\* been graded to the weighted value 40, Total 40 and Grade D.
C2_Witness ==
    /\ Graded /\ finalData.exc = ""
    /\ config["TotalMarks"] = <<E(Hw, <<"1", "0">>)>>
    /\ config["Weights"] = <<E(Hw, <<"5", "0">>)>>
    /\ Len(csv.rows) = 1
    /\ Get(DictReader(csv)[1], Hw) = Str(<<"8">>)
    /\ Get(finalData.ModifiedData[1], Hw) = Flt(40, 1)
    /\ Get(finalData.ModifiedData[1], Total) = Flt(40, 1)
    /\ Get(finalData.ModifiedData[1], Grade) = Str(<<"D">>)

\* The keys of one section that the other one lacks, in the section's order.
Lacking(section, other) ==
    SelectSeq(Keys(config[section]), LAMBDA c : ~Has(config[other], c))

SameKeys == Lacking("TotalMarks", "Weights") = <<>> /\ Lacking("Weights", "TotalMarks") = <<>>

\* The verdict on the keys of Weights against those of TotalMarks: one message
\* for a TotalMarks key without weight, another for a weight without
\* TotalMarks key, each naming the first such key; acceptance only with the
\* same keys.
WeightsVerdict ==
    /\ Lacking("TotalMarks", "Weights") # <<>> =>
          /\ verified.exc = "ValueError"
          /\ verified.msg = "Missing weight for column"
          /\ verified.cites.col = Lacking("TotalMarks", "Weights")[1]
    /\ (Lacking("TotalMarks", "Weights") = <<>> /\ Lacking("Weights", "TotalMarks") # <<>>) =>
          /\ verified.exc = "ValueError"
          /\ verified.msg = "Weight defined but no total marks specified"
          /\ verified.cites.col = Lacking("Weights", "TotalMarks")[1]
    /\ verified.exc = "" => SameKeys

\* TotalMarks has an entry and int() accepts every value.
MarksParse ==
    /\ config["TotalMarks"] # <<>>
    /\ \A i \in 1..Len(config["TotalMarks"]) : IntOf(config["TotalMarks"][i].v).exc = ""

\* C5, as stated: every configuration whose Weights keys differ from its
\* TotalMarks keys fails validation with the message of its asymmetry, naming
\* the key; a configuration that passes has the same keys in both.
C5_KeysAlwaysReported ==
    verified # Idle => WeightsVerdict

\* C5, amended: the same for the configurations that have the four sections
\* and a non-empty TotalMarks of values int() accepts; the others fail on the
\* earlier check, with its message.
C5_KeysReportedAfterMarks ==
    verified # Idle =>
        IF MarksParse THEN WeightsVerdict
        ELSE verified.exc = "ValueError" /\ verified.rule = 2

\* C5 witness: a weight for ex without a TotalMarks entry has been refused with
\* the message of that asymmetry, naming ex.
C5_Witness ==
    /\ verified # Idle /\ verified.exc = "ValueError"
    /\ Lacking("TotalMarks", "Weights") = <<>>
    /\ verified.msg = "Weight defined but no total marks specified"
    /\ verified.cites.col = Ex

\* C6: a configuration is refused when TotalMarks is empty or holds a value
\* that is not an integer >= 1, so an accepted one has positive integers only.
C6_PositiveMarks ==
    verified # Idle =>
        /\ ~MarksParse => verified.exc = "ValueError"
        /\ (\E i \in 1..Len(config["TotalMarks"]) :
                /\ IntOf(config["TotalMarks"][i].v).exc = ""
                /\ IntOf(config["TotalMarks"][i].v).int < 1) => verified.exc = "ValueError"

\* The cells step 7 looks at: data row r, graded column c, in its order.
Graded_columns == Keys(config["TotalMarks"])
Positions == (1..Len(csv.rows)) \X (1..Len(Graded_columns))
CellText(p) == Get(DictReader(csv)[p[1]], Graded_columns[p[2]]).s
Maximum(p) == IntOf(Get(config["TotalMarks"], Graded_columns[p[2]])).int
Blank(p) == Strip(CellText(p)) = <<>>
NotNumeric(p) == FloatOf(Strip(CellText(p))).exc # ""
Excess(p) == ~NotNumeric(p) /\ FltGt(Number(Strip(CellText(p))), Flt(Maximum(p), 1))
Refused(p) == ~Blank(p) /\ (NotNumeric(p) \/ Excess(p))
Before(q, p) == q[1] < p[1] \/ (q[1] = p[1] /\ q[2] < p[2])
FirstRefused == CHOOSE p \in Positions : Refused(p) /\ \A q \in Positions : Before(q, p) => ~Refused(q)

\* Validation got to the data rows: it passed, or failed on one of them.
ReachedRows == verified.exc = "" \/ (verified.exc = "ValueError" /\ verified.rule = 7)

Weighted_columns == Keys(config["Weights"])
Readings == (1..Len(csv.rows)) \X (1..Len(Weighted_columns))
ReadText(p) == Get(DictReader(csv)[p[1]], Weighted_columns[p[2]]).s
FirstBlankRead ==
    CHOOSE p \in Readings :
        /\ Strip(ReadText(p)) = <<>>
        /\ \A q \in Readings : Before(q, p) => Strip(ReadText(q)) # <<>>

\* Validation never fails on an empty or blank cell, whatever
\* _treat_missing_as_zero is.
BlankSkipped ==
    (verified # Idle /\ verified.exc = "ValueError" /\ verified.rule = 7) =>
        \E p \in Positions :
            /\ p[1] + 1 = verified.cites.row
            /\ Graded_columns[p[2]] = verified.cites.col
            /\ ~Blank(p)

TrimmedColumns(reportSettings) ==
    report_columns(Get(reportSettings, "coloumns"))
    \o (IF Get(reportSettings, "_include_total_marks") = True THEN <<Total>> ELSE <<>>)
    \o (IF Get(reportSettings, "_include_overall_grade") = True THEN <<Grade>> ELSE <<>>)

\* The keys a mapping filled in the order of s has: each name once, at its
\* first place.
RECURSIVE Once(_)
Once(s) ==
    IF s = <<>> THEN <<>>
    ELSE IF InSeq(s[Len(s)], SubSeq(s, 1, Len(s) - 1)) THEN Once(SubSeq(s, 1, Len(s) - 1))
    ELSE Append(Once(SubSeq(s, 1, Len(s) - 1)), s[Len(s)])

\* The first data row after the weighting: its columns, Total and Grade.
GradedHeader == Keys(DictReader(csv)[1]) \o <<Total, Grade>>

\* C9: once the rows are weighted, the projected columns are the coloumns text
\* split on commas with each name trimmed, then Total and Grade when included;
\* every emitted row has exactly those keys in that order, and a listed column
\* that the rows lack is a failure.
C9_TrimmedColumns ==
    (Graded /\ finalData.exc \in {"", "KeyError"} /\ csv.rows # <<>>) =>
        IF \A i \in 1..Len(TrimmedColumns(config["ReportSettings"])) :
              InSeq(TrimmedColumns(config["ReportSettings"])[i], GradedHeader)
        THEN /\ finalData.exc = ""
             /\ \A r \in 1..Len(finalData.finalData) :
                   Keys(finalData.finalData[r])
                     = Once(TrimmedColumns(config["ReportSettings"]))
        ELSE finalData.exc = "KeyError"

\* C10: for a dataset without data rows, the csv writer writes the header
\* line only and does not fail, and the combined writer attempts no document
\* for the empty group, so it does not fail either.
C10_EmptyDataset ==
    (written # Idle /\ csv.rows = <<>>
        /\ written.writer \in {"generate_csv_report", "generate_combined_pdf"}) =>
        /\ written.exc = ""
        /\ written.writer = "generate_csv_report" =>
              Len(Get(fs.report, OutputFile).lines) = 1

\* The documents of the groups of the graded rows, one per group, in the
\* order of the groups.
GroupDocuments ==
    [g \in 1..Len(getStudentWiseData(finalData.finalData, Id).groups) |->
        Document(getStudentWiseData(finalData.finalData, Id).groups[g],
                 GetOr(config["ReportSettings"], "report_title", StudentGradeReport))]

\* C11: when generate_combined_pdf returns, the combined output consists of
\* the documents of all the student groups, each once, in the order of the
\* groups.
C11_CombinedDocument ==
    (written # Idle /\ written.writer = "generate_combined_pdf" /\ written.exc = "") =>
        /\ Has(fs.cwd, OutputFile)
        /\ Get(fs.cwd, OutputFile).merged = GroupDocuments

\* C12: when a run of generate_combined_pdf ends, with or without failure,
\* the staging directory tmp/ no longer exists, so the next run sees none of
\* its files.
C12_StagingRemoved ==
    (written # Idle /\ written.writer = "generate_combined_pdf") => ~fs.tmp_dir

-----------------------------------------------------------------------------
(* Properties of the command line.                                         *)

\* The number of configurations is neither 1 nor the number of datasets.
ArityFails ==
    /\ Len(args.config_files) # 1
    /\ Len(args.config_files) # Len(args.csv_files)

\* One configuration for every dataset, or dataset i with configuration i.
Pairing ==
    [i \in 1..Len(args.csv_files) |->
        <<args.csv_files[i],
          args.config_files[IF Len(args.config_files) = 1 THEN 1 ELSE i]>>]

\* C13: when the number of configurations is neither 1 nor the number of
\* datasets, the run fails with a ValueError and no pair is ever validated,
\* graded or rendered; otherwise the pairs are one configuration with every
\* dataset, or dataset i with configuration i, and only these pairs are
\* processed.
C13_MappingArity ==
    IF ArityFails
    THEN /\ processed = <<>>
         /\ mappings = <<>>
         /\ pc \in {"start", "files", "failed"}
         /\ pc = "failed" => raised.exc = "ValueError"
    ELSE /\ mappings # <<>> => mappings = Pairing
         /\ \A i \in 1..Len(processed) :
               \E j \in 1..Len(Pairing) :
                   /\ processed[i].csv = Pairing[j][1]
                   /\ processed[i].config = Pairing[j][2]

\* C13 witness: one dataset with two configurations of the right file type
\* has failed on the mapping, nothing having been processed.
C13_Witness ==
    /\ ArityFails
    /\ pc = "failed"
    /\ raised.exc = "ValueError" /\ raised.msg = "Invalid config-to-CSV mapping"
    /\ raised.num_csv = 1 /\ raised.num_config = 2
    /\ processed = <<>>

-----------------------------------------------------------------------------
(* Properties of the validator's order.                                    *)

HasSection(section) == section \in DOMAIN config

\* What each of the seven rules forbids, stated on the input alone.
Breaks1 == \E i \in 1..Len(required_sections) : ~HasSection(required_sections[i])
Breaks2 ==
    /\ HasSection("TotalMarks")
    /\ \/ config["TotalMarks"] = <<>>
       \/ \E i \in 1..Len(config["TotalMarks"]) : IntOf(config["TotalMarks"][i].v).exc # ""
Breaks3 ==
    /\ HasSection("TotalMarks") /\ HasSection("Weights")
    /\ {config["TotalMarks"][i].k : i \in 1..Len(config["TotalMarks"])}
         # {config["Weights"][i].k : i \in 1..Len(config["Weights"])}
Breaks4 ==
    /\ HasSection("GradeThresholds")
    /\ \E i \in 1..Len(required_grades) : ~Has(config["GradeThresholds"], required_grades[i])
Breaks5 ==
    /\ HasSection("ReportSettings")
    /\ \/ \E i \in 1..Len(required_options) :
             ~Has(config["ReportSettings"], required_options[i])
       \/ /\ HasSection("TotalMarks")
          /\ \E i \in 1..Len(config["TotalMarks"]) :
                ~InSeq(config["TotalMarks"][i].k,
                       report_columns(Get(config["ReportSettings"], "coloumns")))
Breaks6 ==
    \/ ~csv.found
    \/ csv.empty
    \/ /\ HasSection("TotalMarks")
       /\ \E i \in 1..Len(config["TotalMarks"]) :
             ~InSeq(config["TotalMarks"][i].k, csv.header)
Breaks7 == \E p \in Positions : Refused(p)

\* The earliest rule the input breaks, 0 when it breaks none.  A rule is
\* looked at only when the ones before it hold.
Earliest ==
    IF Breaks1 THEN 1 ELSE IF Breaks2 THEN 2 ELSE IF Breaks3 THEN 3
    ELSE IF Breaks4 THEN 4 ELSE IF Breaks5 THEN 5 ELSE IF Breaks6 THEN 6
    ELSE IF Breaks7 THEN 7 ELSE 0

\* C14: verify_config fails with the failure of the earliest rule, in the
\* order 1 to 7, that the input breaks, whatever later rules it breaks too,
\* and accepts the input that breaks none.
C14_EarliestRule ==
    verified # Idle =>
        IF Earliest = 0 THEN verified.exc = ""
        ELSE verified.exc = "ValueError" /\ verified.rule = Earliest

\* C14 witness: an input with an extra weight (rule 3), without the D
\* threshold (rule 4), without hw in coloumns (rule 5) and without dataset
\* (rule 6) has failed on rule 3.
C14_Witness ==
    /\ verified # Idle
    /\ ~Breaks1 /\ ~Breaks2 /\ Breaks3 /\ Breaks4 /\ Breaks5 /\ Breaks6
    /\ verified.exc = "ValueError" /\ verified.rule = 3

-----------------------------------------------------------------------------
(* Properties of the web front end.                                        *)

\* The documents of the students of request r, as the request renders them.
OwnDocuments(r) ==
    [g \in 1..Len(requests[r].students) |->
        Document(requests[r].students[g].v,
                 GetOr(Read(KIni)["ReportSettings"], "report_title", StudentGradeReport))]

\* C15: requests served at the same time do not share their per-student
\* files: under every interleaving, what a request has merged are the
\* documents it rendered itself, none overwritten or removed by another
\* request.
C15_NoSharedStaging ==
    \A r \in Requests :
        requests[r].pc \in {"write", "cleanup", "send"} =>
            requests[r].merger = OwnDocuments(r)

-----------------------------------------------------------------------------
(* Validation against grading.                                             *)

\* C16: for every configuration and dataset that verify_config accepts and in
\* which no cell of a graded column is empty or blank, gradingAlgorithm on
\* the same pair returns without raising.
C16_ValidationSuffices ==
    (Validated /\ Graded /\ \A p \in Positions : ~Blank(p)) => finalData.exc = ""

=============================================================================
